---- MODULE Spec2Model ----
(***************************************************************************)
(* PV / battery dispatch as a mixed-integer linear program: the tariff     *)
(* mapper (data_loader.py), the model builder (model_builder.py), the      *)
(* solve orchestrator (solver.py) and the workflow that chains them        *)
(* (main.py).                                                              *)
(*                                                                         *)
(* Units.  Python lists are 0-indexed, so every series is a function on    *)
(* 0..T-1.  Powers are whole watts.  The code's conversion_factor is       *)
(* (5/60)/1000 = 1/ConvDen kWh per watt-step, so energies are kept         *)
(* multiplied by ConvDen (capacity_kwh holds capacity * ConvDen).  SoC     *)
(* fractions and efficiencies are kept in percent.  The stored energy SE   *)
(* is kept multiplied by ConvDen * 100 * discharge_efficiency% so that the *)
(* division by the discharge efficiency stays exact (see SEScale).  Rates  *)
(* are kept in 1/10000 euro per kWh.  The engine's continuous variables    *)
(* range over the whole watts 0..MaxPower and the differences of the       *)
(* values of the input series (see Grid).                                  *)
(***************************************************************************)
EXTENDS Integers, Sequences, FiniteSets, TLC

VARIABLES pc, data, battery_params, cost_params, buy_rates, controls,
          model, X, ret, path, results, saved, printed, raised

vars == <<pc, data, battery_params, cost_params, buy_rates, controls,
          model, X, ret, path, results, saved, printed, raised>>

\* ---------------------------------------------------------------- bounds
MaxT == 2
MaxPower == 1

\* ------------------------------------------------------- program constants
\* conversion_factor = (5/60)/1000 = 1/12000
ConvDen == 12000
\* the CSV's rows are 5 minutes apart
StepMinutes == 5
Range0(n) == 0 .. (n - 1)
Levels == {0, MaxPower}
LevelSeries(T) == [Range0(T) -> Levels]
len(s) == Cardinality(DOMAIN s)
RECURSIVE max(_)
max(s) ==
  LET n == len(s) IN
  IF n = 1 THEN s[0]
  ELSE LET rest == max([i \in Range0(n - 1) |-> s[i]])
       IN IF s[n - 1] > rest THEN s[n - 1] ELSE rest

\* An optional argument: <<>> is Python's None, <<v>> is the value v.
None == <<>>
Some(v) == <<v>>
IsNone(o) == o = <<>>

\* ------------------------------------------------------ main's configuration
MainBattery ==
  [capacity_kwh |-> 48 * (ConvDen \div 10),  \* 4.8 kWh
   min_soc |-> 11, max_soc |-> 100, initial_soc |-> 22,
   charge_efficiency |-> 95, discharge_efficiency |-> 95,
   max_charge_rate |-> 2780, max_discharge_rate |-> 2370]

MainCost ==
  [day_rate |-> 3634, night_rate |-> 1792, boost_rate |-> 1052,
   sell_price |-> 1950]

\* ------------------------------------------------------------ tariff mapper
\* datetime.hour of a timestamp kept as minutes since midnight of day 0
hour(ts) == (ts \div 60) % 24

\* BandRate with the night band tested before the boost band
BandRate_NightFirst(h, cp) ==
  IF 23 <= h \/ h < 8 THEN cp.night_rate
  ELSE IF 2 <= h /\ h < 4 THEN cp.boost_rate
  ELSE cp.day_rate

BandRate(h, cp) ==
  IF 2 <= h /\ h < 4 THEN cp.boost_rate
  ELSE IF 23 <= h \/ h < 8 THEN cp.night_rate
  ELSE cp.day_rate

TimeOfUseRates(d, cp) ==
  [t \in Range0(len(d.time)) |-> BandRate(hour(d.time[t]), cp)]

\* ------------------------------------------------------------ model builder
\* The model before gp.Model(...) has run.
NoModel ==
  [built |-> FALSE, T |-> 0, solar_production |-> <<>>, load_demand |-> <<>>,
   battery |-> MainBattery, buy_rates |-> <<>>, sell_price |-> 0,
   M_from |-> 0, M_to |-> 0, NumVars |-> 0, NumConstrs |-> 0,
   TimeLimit |-> None, MIPGap |-> None, OutputFlag |-> 1,
   status |-> "LOADED", SolCount |-> 0]

\* ten addVars entries and twelve addConstr calls per time step
VarsPerStep == 10
ConstrsPerStep == 12

\* create_milp_model handing back the previous model object with its
\* parameters, refilled from the new inputs
BuiltModel_KeepsParameters(d, bp, cp, rates) ==
  [built |-> TRUE, T |-> len(d.time),
   solar_production |-> d.solar_production, load_demand |-> d.load_demand,
   battery |-> bp, buy_rates |-> rates, sell_price |-> cp.sell_price,
   M_from |-> bp.max_charge_rate + max(d.load_demand),
   M_to |-> max(d.solar_production),
   NumVars |-> VarsPerStep * len(d.time),
   NumConstrs |-> ConstrsPerStep * len(d.time),
   TimeLimit |-> model.TimeLimit, MIPGap |-> model.MIPGap,
   OutputFlag |-> model.OutputFlag,
   status |-> "LOADED", SolCount |-> 0]

\* The model create_milp_model returns: T time steps, ten variables per step
\* and the coefficients of the constraints 1-9, fixed when they are added.
BuiltModel(d, bp, cp, rates) ==
  [built |-> TRUE, T |-> len(d.time),
   solar_production |-> d.solar_production, load_demand |-> d.load_demand,
   battery |-> bp, buy_rates |-> rates, sell_price |-> cp.sell_price,
   M_from |-> bp.max_charge_rate + max(d.load_demand),
   M_to |-> max(d.solar_production),
   NumVars |-> VarsPerStep * len(d.time),
   NumConstrs |-> ConstrsPerStep * len(d.time),
   TimeLimit |-> None, MIPGap |-> None, OutputFlag |-> 1,
   status |-> "LOADED", SolCount |-> 0]

\* What indexing the inputs at every t in range(T) raises, and the number of
\* constraints added before it: buy_rates[t] is read first (line 39, a dict:
\* KeyError), then solar_production[t] (line 52) and load_demand[t] (line 61),
\* both IndexError.  Entries past T - 1 are never indexed.
ShapeError(d, rates) ==
  LET T == len(d.time) IN
  IF len(rates) < T THEN [raised |-> "KeyError", NumConstrs |-> 0]
  ELSE IF len(d.solar_production) < T
  THEN [raised |-> "IndexError", NumConstrs |-> len(d.solar_production)]
  ELSE IF len(d.load_demand) < T
  THEN [raised |-> "IndexError", NumConstrs |-> T + len(d.load_demand)]
  ELSE [raised |-> "none", NumConstrs |-> ConstrsPerStep * T]

\* The model as it is when create_milp_model raises: the variables of lines
\* 20-33 are added, and nc constraints.
PartialModel(d, nc) ==
  [NoModel EXCEPT !.T = len(d.time), !.NumVars = VarsPerStep * len(d.time),
                  !.NumConstrs = nc]

\* SE is kept multiplied by ConvDen * SEScale.
SEScale(bp) == 100 * bp.discharge_efficiency

InitialEnergy(bp) == bp.initial_soc * bp.capacity_kwh * bp.discharge_efficiency

\* (P_solar_battery + P_grid_battery) * conversion_factor * charge_efficiency
Credit(bp, v) ==
  (v.P_solar_battery + v.P_grid_battery) * bp.charge_efficiency
    * bp.discharge_efficiency

\* the discharge multiplied by discharge_efficiency in place of divided
Debit_TimesEfficiency(bp, v) ==
  v.P_battery_household * bp.discharge_efficiency * bp.discharge_efficiency

\* P_battery_household * conversion_factor / discharge_efficiency
Debit(bp, v) == v.P_battery_household * 100 * 100

\* solar_balance as an inequality: solar power may be left unused
solar_balance_Curtailing(m, t, v) ==
  v.P_solar_household + v.P_solar_battery + v.P_solar_grid <= m.solar_production[t]

\* 1. solar_balance_t
solar_balance(m, t, v) ==
  v.P_solar_household + v.P_solar_battery + v.P_solar_grid = m.solar_production[t]

\* 2. load_balance_t
load_balance(m, t, v) ==
  v.P_solar_household + v.P_battery_household + v.P_grid_household = m.load_demand[t]

\* The right-hand side of battery_dynamics_t; prev is SE[t-1], unused at t = 0.
EnergyAfter(m, t, v, prev) ==
  (IF t = 0 THEN InitialEnergy(m.battery) ELSE prev)
    + Credit(m.battery, v) - Debit(m.battery, v)

\* 3. battery_dynamics_t
battery_dynamics(m, t, v, prev) == v.SE = EnergyAfter(m, t, v, prev)

\* soc_min added for t > 0 only
soc_min_SkipsFirstStep(m, t, v) ==
  t = 0 \/
  v.SE >= m.battery.min_soc * m.battery.capacity_kwh * m.battery.discharge_efficiency

\* 4. soc_min_t and soc_max_t
soc_min(m, t, v) ==
  v.SE >= m.battery.min_soc * m.battery.capacity_kwh * m.battery.discharge_efficiency

\* soc_max left out
soc_max_Absent(m, t, v) == TRUE

soc_max(m, t, v) ==
  v.SE <= m.battery.max_soc * m.battery.capacity_kwh * m.battery.discharge_efficiency

\* 5. charge_limit_t
charge_limit(m, t, v) ==
  v.P_solar_battery + v.P_grid_battery <= m.battery.max_charge_rate

\* 6. discharge_limit_t
discharge_limit(m, t, v) ==
  v.P_battery_household <= m.battery.max_discharge_rate

\* charge_binary without the indicator BC
charge_binary_NoIndicator(m, t, v) ==
  v.P_solar_battery + v.P_grid_battery <= m.battery.max_charge_rate

\* 7. charge_binary_t and discharge_binary_t
charge_binary(m, t, v) ==
  v.P_solar_battery + v.P_grid_battery <= v.BC * m.battery.max_charge_rate

discharge_binary(m, t, v) ==
  v.P_battery_household <= v.BD * m.battery.max_discharge_rate

\* no_simultaneous with the right-hand side 2
no_simultaneous_Loose(m, t, v) == v.BC + v.BD <= 2

\* 8. no_simultaneous_t
no_simultaneous(m, t, v) == v.BC + v.BD <= 1

\* grid_flow_from without the indicator
grid_flow_from_NoIndicator(m, t, v) ==
  v.P_grid_household + v.P_grid_battery <= m.M_from

\* grid_flow_to with GF in place of 1 - GF
grid_flow_to_Flipped(m, t, v) ==
  v.P_solar_grid <= v.GF * m.M_to

\* grid_flow_from with the coefficient max(load_demand) alone
grid_flow_from_LoadOnly(m, t, v) ==
  v.P_grid_household + v.P_grid_battery <= v.GF * max(m.load_demand)

\* grid_flow_from with the coefficient max_charge_rate alone
grid_flow_from_ChargeOnly(m, t, v) ==
  v.P_grid_household + v.P_grid_battery <= v.GF * m.battery.max_charge_rate

\* 9. grid_flow_from_t and grid_flow_to_t
grid_flow_from(m, t, v) ==
  v.P_grid_household + v.P_grid_battery <= v.GF * m.M_from

grid_flow_to(m, t, v) ==
  v.P_solar_grid <= (1 - v.GF) * m.M_to

\* The values of the input series the constraints of m read, and 0.
DataValues(m) ==
  {0} \cup {m.solar_production[t] : t \in Range0(m.T)}
      \cup {m.load_demand[t] : t \in Range0(m.T)}

\* The flows have lb = 0 and no upper bound.  They range over the whole watts
\* 0..MaxPower and over every difference of two values of the input series,
\* the values the two balances leave to a flow when the others are 0 or a
\* datum.
Grid(m) ==
  (0 .. MaxPower) \cup {d \in {a - b : a, b \in DataValues(m)} : d >= 0}

\* the variables' own bounds: lb = 0 for the flows and SE, BINARY for BC, BD, GF
SolarVars(m) ==
  [P_solar_household : Grid(m), P_solar_battery : Grid(m), P_solar_grid : Grid(m)]
LoadVars(m) == [P_battery_household : Grid(m), P_grid_household : Grid(m)]
GridVars(m) == [P_grid_battery : Grid(m)]
ModeVars == [BC : {0, 1}, BD : {0, 1}, GF : {0, 1}]

\* Every constraint of step t on the step's variables v.
StepFeasible(m, t, v, prev) ==
  /\ solar_balance(m, t, v)
  /\ load_balance(m, t, v)
  /\ battery_dynamics(m, t, v, prev)
  /\ v.SE >= 0
  /\ soc_min(m, t, v)
  /\ soc_max(m, t, v)
  /\ charge_limit(m, t, v)
  /\ discharge_limit(m, t, v)
  /\ charge_binary(m, t, v)
  /\ discharge_binary(m, t, v)
  /\ no_simultaneous(m, t, v)
  /\ grid_flow_from(m, t, v)
  /\ grid_flow_to(m, t, v)

\* The grid points of step t that satisfy every constraint of step t.  The
\* equalities are applied first so that the enumeration stays small.
StepRecords(m, t, prev) ==
  LET S == {s \in SolarVars(m) : solar_balance(m, t, s)}
      L(s) == {s @@ l : l \in {l \in LoadVars(m) : load_balance(m, t, s @@ l)}}
      F == UNION {L(s) : s \in S}
      G == {f @@ g : f \in F, g \in GridVars(m)}
      E == {g @@ [SE |-> EnergyAfter(m, t, g, prev)] : g \in G}
      B == {e @@ b : e \in E, b \in ModeVars}
  IN {v \in B : StepFeasible(m, t, v, prev)}

\* The feasible assignments of the steps 0..n-1, each a function on 0..n-1.
RECURSIVE Prefixes(_, _)
Prefixes(m, n) ==
  IF n = 0 THEN {<<>>}
  ELSE UNION {
         {[i \in Range0(n) |-> IF i = n - 1 THEN v ELSE p[i]] :
            v \in StepRecords(m, n - 1, IF n = 1 THEN 0 ELSE p[n - 2].SE)}
         : p \in Prefixes(m, n - 1)}

FeasibleSet(m) == Prefixes(m, m.T)

\* The constraints 1-8 of step t, without the two of block 9.
OtherConstraints(m, t, v, prev) ==
  /\ solar_balance(m, t, v)
  /\ load_balance(m, t, v)
  /\ battery_dynamics(m, t, v, prev)
  /\ v.SE >= 0
  /\ soc_min(m, t, v)
  /\ soc_max(m, t, v)
  /\ charge_limit(m, t, v)
  /\ discharge_limit(m, t, v)
  /\ charge_binary(m, t, v)
  /\ discharge_binary(m, t, v)
  /\ no_simultaneous(m, t, v)

\* The grid points of step t, GF left out, that satisfy the constraints 1-8.
RelaxedRecords(m, t, prev) ==
  LET S == {s \in SolarVars(m) : solar_balance(m, t, s)}
      L(s) == {s @@ l : l \in {l \in LoadVars(m) : load_balance(m, t, s @@ l)}}
      F == UNION {L(s) : s \in S}
      G == {f @@ g : f \in F, g \in GridVars(m)}
      E == {g @@ [SE |-> EnergyAfter(m, t, g, prev)] : g \in G}
      B == {e @@ b : e \in E, b \in [BC : {0, 1}, BD : {0, 1}]}
  IN {v \in B : OtherConstraints(m, t, v, prev)}

RECURSIVE RelaxedPrefixes(_, _)
RelaxedPrefixes(m, n) ==
  IF n = 0 THEN {<<>>}
  ELSE UNION {
         {[i \in Range0(n) |-> IF i = n - 1 THEN v ELSE p[i]] :
            v \in RelaxedRecords(m, n - 1, IF n = 1 THEN 0 ELSE p[n - 2].SE)}
         : p \in RelaxedPrefixes(m, n - 1)}

RelaxedSet(m) == RelaxedPrefixes(m, m.T)

\* sum of (P_grid_household + P_grid_battery) * c * buy_rates[t]
\*        - P_solar_grid * c * sell_price, times ConvDen * 10000
RECURSIVE Objective(_, _, _)
Objective(m, x, n) ==
  IF n = 0 THEN 0
  ELSE Objective(m, x, n - 1)
       + (x[n - 1].P_grid_household + x[n - 1].P_grid_battery) * m.buy_rates[n - 1]
       - x[n - 1].P_solar_grid * m.sell_price

objVal(m, x) == Objective(m, x, m.T)

\* ------------------------------------------------------- solve orchestrator
\* "if time_limit:" in place of "if time_limit is not None:"
TimeLimitGiven_Truthy(time_limit) == ~IsNone(time_limit) /\ time_limit[1] # 0

\* if time_limit is not None / if gap is not None
TimeLimitGiven(time_limit) == ~IsNone(time_limit)
GapGiven(gap) == ~IsNone(gap)

\* model.setParam raises gp.GurobiError for a value outside the parameter's
\* range; TimeLimit and MIPGap both start at 0.
ParamAccepted(o) == o[1] >= 0

\* Lines 20-29: the parameters as set, and whether a setParam call raised
\* (nothing after the raising call runs).
SetParams(m, time_limit, gap, verbose) ==
  IF TimeLimitGiven(time_limit) /\ ~ParamAccepted(time_limit)
  THEN [m |-> m, raised |-> TRUE]
  ELSE LET m1 == IF TimeLimitGiven(time_limit)
                 THEN [m EXCEPT !.TimeLimit = time_limit] ELSE m
       IN IF GapGiven(gap) /\ ~ParamAccepted(gap)
          THEN [m |-> m1, raised |-> TRUE]
          ELSE LET m2 == IF GapGiven(gap) THEN [m1 EXCEPT !.MIPGap = gap] ELSE m1
               IN [m |-> [m2 EXCEPT !.OutputFlag = IF verbose THEN 1 ELSE 0],
                   raised |-> FALSE]

\* The least objective value over a non-empty set of assignments.
BestObjective(m, F) ==
  LET vals == {objVal(m, x) : x \in F}
  IN CHOOSE b \in vals : \A o \in vals : b <= o

\* The assignments the engine may report as OPTIMAL: within the relative gap
\* MIPGap (in percent; unset, the engine's default is tight) of the best.
OptimalSet(m, F) ==
  IF F = {} THEN {}
  ELSE LET best == BestObjective(m, F)
           gap == IF IsNone(m.MIPGap) THEN 0 ELSE m.MIPGap[1]
           abs(n) == IF n < 0 THEN -n ELSE n
       IN {x \in F : (objVal(m, x) - best) * 100 <= gap * abs(objVal(m, x))}

\* What model.optimize() may leave behind: it raises gp.GurobiError, or ends
\* with a status, a solution count (1 stands for any count > 0) and, with a
\* solution, the values of the variables.  TIME_LIMIT needs a time limit.
EngineOutcomes(m) ==
  LET F == FeasibleSet(m)
      out(e, st, n, x) == [error |-> e, status |-> st, SolCount |-> n, x |-> x]
  IN {out(TRUE, "LOADED", 0, <<>>), out(FALSE, "NUMERIC", 0, <<>>)}
     \cup {out(FALSE, "OPTIMAL", 1, x) : x \in OptimalSet(m, F)}
     \cup (IF IsNone(m.TimeLimit) THEN {}
           ELSE {out(FALSE, "TIME_LIMIT", 1, x) : x \in F}
                \cup {out(FALSE, "TIME_LIMIT", 0, <<>>)})
     \cup (IF F = {}
           THEN {out(FALSE, "INFEASIBLE", 0, <<>>), out(FALSE, "INF_OR_UNBD", 0, <<>>)}
           ELSE {})

\* model.objVal raises when there is no solution; the class it raises
\* (gp.GurobiError or AttributeError) depends on the gurobipy build, so the
\* handler that catches it is either of the two.
ObjValHandlers == {"gurobi_error", "exception"}

\* Report with the else branch returning True
Report_OtherStatusSucceeds(status, SolCount, handler) ==
  IF status = "OPTIMAL" THEN [ret |-> TRUE, path |-> "optimal"]
  ELSE IF status = "TIME_LIMIT"
       THEN IF SolCount = 0 THEN [ret |-> FALSE, path |-> handler]
            ELSE [ret |-> SolCount > 0, path |-> "time_limit"]
       ELSE [ret |-> TRUE, path |-> "other"]

\* Lines 35-46: the branch taken on the status, and what it returns.
\* handler is the except clause that catches a raising model.objVal.
Report(status, SolCount, handler) ==
  IF status = "OPTIMAL" THEN [ret |-> TRUE, path |-> "optimal"]
  ELSE IF status = "TIME_LIMIT"
       THEN IF SolCount = 0 THEN [ret |-> FALSE, path |-> handler]
            ELSE [ret |-> SolCount > 0, path |-> "time_limit"]
       ELSE [ret |-> FALSE, path |-> "other"]

solve_milp(time_limit, gap, verbose) ==
  /\ pc = "solve"
  /\ controls' = [time_limit |-> time_limit, gap |-> gap, verbose |-> verbose]
  /\ LET set == SetParams(model, time_limit, gap, verbose) IN
     IF set.raised
     THEN /\ model' = set.m
          /\ X' = <<>>
          /\ ret' = FALSE
          /\ path' = "gurobi_error"
     ELSE \E o \in EngineOutcomes(set.m) :
          \E h \in (IF o.SolCount = 0 THEN ObjValHandlers ELSE {"none"}) :
            /\ model' = [set.m EXCEPT !.status = o.status, !.SolCount = o.SolCount]
            /\ X' = o.x
            /\ IF o.error
               THEN ret' = FALSE /\ path' = "gurobi_error"
               ELSE LET r == Report(o.status, o.SolCount, h)
                    IN ret' = r.ret /\ path' = r.path
  /\ pc' = "returned"
  /\ UNCHANGED <<data, battery_params, cost_params, buy_rates, results, saved,
                 printed, raised>>

\* SoC[t] = SE[t] / capacity_kwh * 100, as the fraction num / den in lowest
\* scale: (se / SEScale) / capacity_kwh * 100 = se / (efficiency% * capacity_kwh)
SoC(se, bp) == [num |-> se, den |-> bp.discharge_efficiency * bp.capacity_kwh]

\* [vars_dict[name][t].X for t in time_steps], time_steps = range(len(data['time']))
Series(x, name) == [t \in Range0(len(data.time)) |-> x[t][name]]

extract_results ==
  /\ pc = "extract"
  /\ IF X = <<>>
     THEN \* without a solution the .X of line 73 raises AttributeError
          /\ raised' = "AttributeError"
          /\ pc' = "crashed"
          /\ UNCHANGED results
     ELSE IF battery_params.capacity_kwh = 0
     THEN \* the division of line 80 raises ZeroDivisionError
          /\ raised' = "ZeroDivisionError"
          /\ pc' = "crashed"
          /\ UNCHANGED results
     ELSE /\ results' =
               {[time |-> data.time,
                 solar_production |-> data.solar_production,
                 load_demand |-> data.load_demand,
                 P_solar_household |-> Series(X, "P_solar_household"),
                 P_solar_battery |-> Series(X, "P_solar_battery"),
                 P_solar_grid |-> Series(X, "P_solar_grid"),
                 P_battery_household |-> Series(X, "P_battery_household"),
                 P_grid_battery |-> Series(X, "P_grid_battery"),
                 P_grid_household |-> Series(X, "P_grid_household"),
                 SE |-> Series(X, "SE"),
                 SoC |-> [t \in Range0(len(data.time)) |->
                            SoC(X[t].SE, battery_params)],
                 BC |-> Series(X, "BC"),
                 BD |-> Series(X, "BD"),
                 GF |-> Series(X, "GF"),
                 total_cost |-> objVal(model, X)]}
          /\ pc' = "save"
          /\ UNCHANGED raised
  /\ UNCHANGED <<data, battery_params, cost_params, buy_rates, controls, model,
                 X, ret, path, saved, printed>>

save_results ==
  /\ pc = "save"
  /\ saved' = TRUE
  /\ pc' = "summary"
  /\ UNCHANGED <<data, battery_params, cost_params, buy_rates, controls, model,
                 X, ret, path, results, printed, raised>>

print_summary ==
  /\ pc = "summary"
  /\ printed' = TRUE
  /\ pc' = "done"
  /\ UNCHANGED <<data, battery_params, cost_params, buy_rates, controls, model,
                 X, ret, path, results, saved, raised>>

\* ------------------------------------------------------------- the workflow
get_time_of_use_rates ==
  /\ pc = "rates"
  /\ buy_rates' = TimeOfUseRates(data, cost_params)
  /\ pc' = "create"
  /\ UNCHANGED <<data, battery_params, cost_params, controls, model, X, ret,
                 path, results, saved, printed, raised>>

\* gp.Model(...) raises gp.GurobiError without a usable licence; nothing in
\* create_milp_model or main catches it.
create_milp_model ==
  /\ pc = "create"
  /\ \/ /\ raised' = "GurobiError"
        /\ pc' = "crashed"
        /\ UNCHANGED model
     \/ LET e == ShapeError(data, buy_rates) IN
        IF e.raised # "none"
        THEN /\ model' = PartialModel(data, e.NumConstrs)
             /\ raised' = e.raised
             /\ pc' = "crashed"
        ELSE /\ model' = BuiltModel(data, battery_params, cost_params, buy_rates)
             /\ pc' = "solve"
             /\ UNCHANGED raised
  /\ UNCHANGED <<data, battery_params, cost_params, buy_rates, controls, X,
                 ret, path, results, saved, printed>>

\* main without the test of solve_milp's return value
AfterSolve_AlwaysExtract(r) == "extract"

\* main's "if solve_milp(...)"
AfterSolve(r) == IF r THEN "extract" ELSE "failed"

main_if ==
  /\ pc = "returned"
  /\ pc' = AfterSolve(ret)
  /\ UNCHANGED <<data, battery_params, cost_params, buy_rates, controls, model,
                 X, ret, path, results, saved, printed, raised>>

\* The rows of the CSV: T >= 1 timestamps StepMinutes apart, from 01:55, and
\* the two series.
StartTimes == {115}

load_data ==
  /\ pc = "load"
  /\ \E T \in 1 .. MaxT, start \in StartTimes :
       \E sp \in LevelSeries(T), ld \in LevelSeries(T) :
         data' = [time |-> [t \in Range0(T) |-> start + StepMinutes * t],
                  solar_production |-> sp, load_demand |-> ld]
  /\ pc' = "rates"
  /\ UNCHANGED <<battery_params, cost_params, buy_rates, controls, model, X,
                 ret, path, results, saved, printed, raised>>

NoData == [time |-> <<>>, solar_production |-> <<>>, load_demand |-> <<>>]
NoControls == [time_limit |-> None, gap |-> None, verbose |-> TRUE]

TimeLimits == {None, Some(0), Some(300), Some(-1)}
Gaps == {None, Some(1)}

Init ==
  /\ pc = "load"
  /\ data = NoData
  /\ battery_params = MainBattery
  /\ cost_params = MainCost
  /\ buy_rates = <<>>
  /\ controls = NoControls
  /\ model = NoModel
  /\ X = <<>>
  /\ ret = FALSE
  /\ path = "none"
  /\ results = {}
  /\ saved = FALSE
  /\ printed = FALSE
  /\ raised = "none"

\* ---- create_milp_model and the engine on any battery configuration
\* min_soc < max_soc, both fractions of the capacity; efficiencies in (0, 1]
BatteryConfigs ==
  {[capacity_kwh |-> cap, min_soc |-> lo, max_soc |-> hi, initial_soc |-> soc,
    charge_efficiency |-> ce, discharge_efficiency |-> de,
    max_charge_rate |-> rate, max_discharge_rate |-> rate] :
     cap \in {0, 2}, lo \in {0, 50}, hi \in {100}, soc \in {0, 50, 100},
     ce \in {50, 100}, de \in {50, 100}, rate \in Levels}

InitModel ==
  /\ pc = "create"
  /\ \E T \in 1 .. MaxT :
       \E sp \in LevelSeries(T), ld \in LevelSeries(T) :
         /\ data = [time |-> [t \in Range0(T) |-> 720 + StepMinutes * t],
                    solar_production |-> sp, load_demand |-> ld]
         /\ buy_rates = [t \in Range0(T) |-> MainCost.day_rate]
  /\ battery_params \in BatteryConfigs
  /\ cost_params = MainCost
  /\ controls = NoControls
  /\ model = NoModel
  /\ X = <<>>
  /\ ret = FALSE
  /\ path = "none"
  /\ results = {}
  /\ saved = FALSE
  /\ printed = FALSE
  /\ raised = "none"

\* main's call: solve_milp(model, time_limit=300, gap=0.01)
SolveAsMain == solve_milp(Some(300), Some(1), TRUE)

NextModel ==
  \/ create_milp_model
  \/ SolveAsMain

SpecModel == InitModel /\ [][NextModel]_vars

\* ---- get_time_of_use_rates on any timestamps
Stamps == {60 * h + m : h \in 0 .. 23, m \in {0, 55}}

InitTariff ==
  /\ pc = "rates"
  /\ \E T \in 1 .. MaxT :
       \E ts \in [Range0(T) -> Stamps] :
         data = [time |-> ts,
                 solar_production |-> [t \in Range0(T) |-> 0],
                 load_demand |-> [t \in Range0(T) |-> 0]]
  /\ battery_params = MainBattery
  /\ cost_params = MainCost
  /\ buy_rates = <<>>
  /\ controls = NoControls
  /\ model = NoModel
  /\ X = <<>>
  /\ ret = FALSE
  /\ path = "none"
  /\ results = {}
  /\ saved = FALSE
  /\ printed = FALSE
  /\ raised = "none"

NextTariff == get_time_of_use_rates

SpecTariff == InitTariff /\ [][NextTariff]_vars

\* ---- from create_milp_model to extract_results, zero capacity included
ExtractConfigs ==
  {b \in BatteryConfigs :
     /\ b.min_soc = 0
     /\ b.charge_efficiency = 100
     /\ b.discharge_efficiency = 100}

InitExtract ==
  /\ pc = "create"
  /\ \E T \in 1 .. MaxT :
       \E sp \in LevelSeries(T), ld \in LevelSeries(T) :
         /\ data = [time |-> [t \in Range0(T) |-> 720 + StepMinutes * t],
                    solar_production |-> sp, load_demand |-> ld]
         /\ buy_rates = [t \in Range0(T) |-> MainCost.day_rate]
  /\ battery_params \in ExtractConfigs
  /\ cost_params = MainCost
  /\ controls = NoControls
  /\ model = NoModel
  /\ X = <<>>
  /\ ret = FALSE
  /\ path = "none"
  /\ results = {}
  /\ saved = FALSE
  /\ printed = FALSE
  /\ raised = "none"

NextExtract ==
  \/ create_milp_model
  \/ SolveAsMain
  \/ main_if
  \/ extract_results

SpecExtract == InitExtract /\ [][NextExtract]_vars

\* ---- main called again in the same process
\* The locals of the previous call are rebound; the previous model object is
\* still alive when the next one is created.
main_again ==
  /\ pc \in {"failed", "done"}
  /\ pc' = "rates"
  /\ buy_rates' = <<>>
  /\ controls' = NoControls
  /\ X' = <<>>
  /\ ret' = FALSE
  /\ path' = "none"
  /\ results' = {}
  /\ UNCHANGED <<data, battery_params, cost_params, model, saved, printed, raised>>

InitAgain ==
  /\ pc = "rates"
  /\ \E T \in 1 .. MaxT, start \in StartTimes :
       \E sp \in LevelSeries(T), ld \in LevelSeries(T) :
         data = [time |-> [t \in Range0(T) |-> start + StepMinutes * t],
                 solar_production |-> sp, load_demand |-> ld]
  /\ battery_params = MainBattery
  /\ cost_params = MainCost
  /\ buy_rates = <<>>
  /\ controls = NoControls
  /\ model = NoModel
  /\ X = <<>>
  /\ ret = FALSE
  /\ path = "none"
  /\ results = {}
  /\ saved = FALSE
  /\ printed = FALSE
  /\ raised = "none"

NextAgain ==
  \/ get_time_of_use_rates
  \/ create_milp_model
  \/ SolveAsMain
  \/ main_if
  \/ extract_results
  \/ save_results
  \/ print_summary
  \/ main_again

SpecAgain == InitAgain /\ [][NextAgain]_vars

\* ---- create_milp_model alone, on any battery configuration
NextBuild == create_milp_model

SpecBuild == InitModel /\ [][NextBuild]_vars

\* ---- create_milp_model on series of any lengths
InitShape ==
  /\ pc = "create"
  /\ \E T \in 1 .. MaxT, ns \in 1 .. MaxT + 1, nl \in 1 .. MaxT + 1,
        nr \in 1 .. MaxT + 1 :
       \E sp \in LevelSeries(ns), ld \in LevelSeries(nl) :
         /\ data = [time |-> [t \in Range0(T) |-> 720 + StepMinutes * t],
                    solar_production |-> sp, load_demand |-> ld]
         /\ buy_rates = [t \in Range0(nr) |-> MainCost.day_rate]
  /\ battery_params = MainBattery
  /\ cost_params = MainCost
  /\ controls = NoControls
  /\ model = NoModel
  /\ X = <<>>
  /\ ret = FALSE
  /\ path = "none"
  /\ results = {}
  /\ saved = FALSE
  /\ printed = FALSE
  /\ raised = "none"

NextShape == create_milp_model

SpecShape == InitShape /\ [][NextShape]_vars

\* ---- one step with surplus solar and a battery that can store nothing
\* max_soc = min_soc = initial_soc = 0; any capacity, efficiencies and rates
NoStorageConfigs ==
  {[capacity_kwh |-> cap, min_soc |-> 0, max_soc |-> 0, initial_soc |-> 0,
    charge_efficiency |-> ce, discharge_efficiency |-> de,
    max_charge_rate |-> cr, max_discharge_rate |-> dr] :
     cap \in {0, MainBattery.capacity_kwh}, ce \in {95, 100}, de \in {95, 100},
     cr \in {0, MainBattery.max_charge_rate},
     dr \in {0, MainBattery.max_discharge_rate}}

InitSurplus ==
  /\ pc = "create"
  /\ data = [time |-> [t \in Range0(1) |-> 720],
             solar_production |-> [t \in Range0(1) |-> 1500],
             load_demand |-> [t \in Range0(1) |-> 1000]]
  /\ buy_rates = [t \in Range0(1) |-> MainCost.day_rate]
  /\ battery_params \in NoStorageConfigs
  /\ cost_params = MainCost
  /\ controls = NoControls
  /\ model = NoModel
  /\ X = <<>>
  /\ ret = FALSE
  /\ path = "none"
  /\ results = {}
  /\ saved = FALSE
  /\ printed = FALSE
  /\ raised = "none"

SpecSurplus == InitSurplus /\ [][NextModel]_vars

\* The calls of solve_milp: every time limit with every gap, and one quiet call.
Calls ==
  {<<tl, g, TRUE>> : tl \in TimeLimits, g \in Gaps} \cup {<<None, None, FALSE>>}

Solve == \E c \in Calls : solve_milp(c[1], c[2], c[3])

Next ==
  \/ load_data
  \/ get_time_of_use_rates
  \/ create_milp_model
  \/ Solve
  \/ main_if
  \/ extract_results
  \/ save_results
  \/ print_summary

Spec == Init /\ [][Next]_vars

\* ------------------------------------------------------------------ claims
\* solve_milp has returned (it is the only action that sets path)
Returned == path # "none"

Import(v) == v.P_grid_household + v.P_grid_battery
Export(v) == v.P_solar_grid
Charging(v) == v.P_solar_battery + v.P_grid_battery
Discharging(v) == v.P_battery_household
Solved == X # <<>>

\* C1: solve_milp returns True exactly when the engine ended OPTIMAL, or
\* TIME_LIMIT with a solution count above 0; with TIME_LIMIT and no solution,
\* and with any other status, it returns False.
C1_SuccessIffOptimalOrIncumbent ==
  Returned =>
    (ret <=> (\/ model.status = "OPTIMAL"
              \/ model.status = "TIME_LIMIT" /\ model.SolCount > 0))

C1_Witness ==
  /\ Returned
  /\ model.status = "TIME_LIMIT"
  /\ model.SolCount > 0
  /\ ret

\* C2: results are extracted, saved and summarised only after solve_milp has
\* returned True; after it returned False the three calls never run and no
\* result exists.  A result that exists has T entries in every series.
ResultSeries ==
  {"time", "solar_production", "load_demand", "P_solar_household",
   "P_solar_battery", "P_solar_grid", "P_battery_household", "P_grid_battery",
   "P_grid_household", "SE", "SoC", "BC", "BD", "GF"}

C2_ResultsOnlyAfterSuccess ==
  /\ (pc \in {"extract", "save", "summary", "done"} \/ results # {} \/ saved \/ printed)
       => Returned /\ ret /\ model.status \in {"OPTIMAL", "TIME_LIMIT"}
  /\ results # {} => pc \in {"save", "summary", "done"}
  /\ (Returned /\ ~ret)
       => pc \in {"returned", "failed"} /\ results = {} /\ ~saved /\ ~printed
  /\ \A r \in results :
       \A k \in ResultSeries : DOMAIN r[k] = Range0(len(data.time))

C2_Witness ==
  /\ pc = "done"
  /\ results # {}
  /\ saved
  /\ printed
  /\ ret

\* C3: a solver-engine error raised anywhere in a run, while the model is
\* created or while it is solved, is reported as a False return and never
\* propagates as an uncaught exception.
C3_EngineErrorsReportedAsFailure ==
  /\ raised # "GurobiError"
  /\ path = "gurobi_error" => ~ret /\ results = {}

\* C4: an infeasible model, and a time limit reached with no solution, are
\* reported as failure through the status branches of solve_milp, never
\* through an except clause.
NoFeasiblePointFound ==
  \/ model.status \in {"INFEASIBLE", "INF_OR_UNBD"}
  \/ model.status = "TIME_LIMIT" /\ model.SolCount = 0

C4_NonConvergenceThroughStatusBranch ==
  (Returned /\ NoFeasiblePointFound) => ~ret /\ path \in {"time_limit", "other"}

\* C5: after a call with time_limit = 0 the limit 0 is set on the model, and
\* the call has returned False when no solution was found and True only with
\* OPTIMAL or a solution.
C5_ZeroTimeLimitApplied ==
  (Returned /\ controls.time_limit = Some(0)) =>
    /\ model.TimeLimit = Some(0)
    /\ pc # "solve"
    /\ ret \in BOOLEAN
    /\ model.SolCount = 0 => ~ret
    /\ ret => (model.status = "OPTIMAL" \/ model.SolCount > 0)

C5_Witness ==
  /\ Returned
  /\ controls.time_limit = Some(0)
  /\ model.TimeLimit = Some(0)
  /\ model.status = "TIME_LIMIT"
  /\ model.SolCount = 0
  /\ ~ret

\* C6: the tariff map has exactly the entries 0..T-1; hours 2 and 3 get the
\* boost rate, hours 23 and 0, 1, 4..7 the night rate, hours 8..22 the day
\* rate.
BoostHours == {2, 3}
NightHours == {23, 0, 1, 4, 5, 6, 7}
DayHours == 8 .. 22

C6_TariffBands ==
  pc = "create" =>
    /\ DOMAIN buy_rates = Range0(len(data.time))
    /\ \A t \in DOMAIN buy_rates :
         LET h == (data.time[t] \div 60) % 24 IN
         /\ h \in BoostHours => buy_rates[t] = cost_params.boost_rate
         /\ h \in NightHours => buy_rates[t] = cost_params.night_rate
         /\ h \in DayHours => buy_rates[t] = cost_params.day_rate

C6_Witness ==
  /\ pc = "create"
  /\ len(buy_rates) = 2
  /\ (data.time[0] \div 60) % 24 = 1
  /\ buy_rates[0] = cost_params.night_rate
  /\ (data.time[1] \div 60) % 24 = 2
  /\ buy_rates[1] = cost_params.boost_rate

\* C7: in every assignment the engine returns, at every step BC and BD are
\* 0 or 1 with BC + BD <= 1, a positive charging flow has BC = 1, a positive
\* discharging flow has BD = 1, and the two flows are never both positive.
C7_ChargeDischargeExclusive ==
  \A t \in DOMAIN X :
    /\ X[t].BC \in {0, 1}
    /\ X[t].BD \in {0, 1}
    /\ X[t].BC + X[t].BD <= 1
    /\ Charging(X[t]) > 0 => X[t].BC = 1
    /\ Discharging(X[t]) > 0 => X[t].BD = 1
    /\ ~(Charging(X[t]) > 0 /\ Discharging(X[t]) > 0)

C7_Witness ==
  /\ Solved
  /\ \E t \in DOMAIN X : Charging(X[t]) > 0 /\ X[t].BC = 1
  /\ \E t \in DOMAIN X : Discharging(X[t]) > 0 /\ X[t].BD = 1

\* C8: at every step grid import and grid export are never both positive,
\* import > 0 has GF = 1 and export > 0 has GF = 0.
C8_GridOneDirection ==
  \A t \in DOMAIN X :
    /\ ~(Import(X[t]) > 0 /\ Export(X[t]) > 0)
    /\ Import(X[t]) > 0 => X[t].GF = 1
    /\ Export(X[t]) > 0 => X[t].GF = 0

C8_Witness ==
  /\ Solved
  /\ \E t \in DOMAIN X : Import(X[t]) > 0 /\ Export(X[t]) = 0 /\ X[t].GF = 1
  /\ \E t \in DOMAIN X : Export(X[t]) > 0 /\ Import(X[t]) = 0 /\ X[t].GF = 0

\* C9 as stated: at every step GF = 1 if and only if grid import is positive.
C9_IndicatorIffImport ==
  \A t \in DOMAIN X : X[t].GF = 1 <=> Import(X[t]) > 0

\* C9 as amended: at every step a positive grid import has GF = 1, and GF = 1
\* excludes export; GF = 1 does not need an import.
C9_ImportImpliesIndicator ==
  \A t \in DOMAIN X :
    /\ X[t].GF \in {0, 1}
    /\ X[t].GF = 0 => Import(X[t]) = 0
    /\ X[t].GF = 1 => Export(X[t]) = 0

C9_Witness ==
  /\ Solved
  /\ \E t \in DOMAIN X : X[t].GF = 1 /\ Import(X[t]) > 0
  /\ \E t \in DOMAIN X : X[t].GF = 1 /\ Import(X[t]) = 0

\* C10: at every step, step 0 included, the stored energy lies between
\* min_soc * capacity and max_soc * capacity.
\* The two bounds in the scale of SE: a percentage of the capacity, times
\* SEScale / 100.
MinEnergy ==
  battery_params.min_soc * battery_params.capacity_kwh
    * (SEScale(battery_params) \div 100)
MaxEnergy ==
  battery_params.max_soc * battery_params.capacity_kwh
    * (SEScale(battery_params) \div 100)

C10_StoredEnergyWithinBounds ==
  \A t \in DOMAIN X :
    /\ MinEnergy <= X[t].SE
    /\ X[t].SE <= MaxEnergy

C10_Witness ==
  /\ Solved
  /\ len(X) >= 2
  /\ Discharging(X[0]) > 0
  /\ X[0].SE = MinEnergy
  /\ Charging(X[1]) > 0
  /\ X[1].SE = MaxEnergy

\* C11: in every result set, at every step the three solar flows add up to
\* solar_production[t], the three household flows add up to load_demand[t],
\* and the six flows are not negative.
FlowNames ==
  {"P_solar_household", "P_solar_battery", "P_solar_grid",
   "P_battery_household", "P_grid_battery", "P_grid_household"}

C11_PowerConservedAtBothNodes ==
  \A r \in results :
    \A t \in DOMAIN r.time :
      /\ r.P_solar_household[t] + r.P_solar_battery[t] + r.P_solar_grid[t]
           = r.solar_production[t]
      /\ r.P_solar_household[t] + r.P_battery_household[t] + r.P_grid_household[t]
           = r.load_demand[t]
      /\ \A f \in FlowNames : r[f][t] >= 0

C11_Witness ==
  \E r \in results :
    /\ len(r.time) >= 2
    /\ r.solar_production[0] > 0 /\ r.load_demand[0] = 0
    /\ r.solar_production[1] = 0 /\ r.load_demand[1] > 0
    /\ r.P_battery_household[1] > 0

\* C12: with solar_production 0 at every step and capacity 0, every feasible
\* assignment imports the whole load (P_grid_household[t] = load_demand[t])
\* and has every battery flow 0, and the optimal objective is the sum of
\* load_demand[t] * c * buy_rates[t].
ZeroSolarZeroCapacity(m) ==
  /\ m.built
  /\ m.battery.capacity_kwh = 0
  /\ \A t \in Range0(m.T) : m.solar_production[t] = 0

\* sum of load_demand[t] * buy_rates[t], in the scale of objVal
RECURSIVE GridOnlyCost(_, _)
GridOnlyCost(m, n) ==
  IF n = 0 THEN 0
  ELSE GridOnlyCost(m, n - 1) + m.load_demand[n - 1] * m.buy_rates[n - 1]

ImportsLoad(m, x) ==
  \A t \in Range0(m.T) :
    /\ x[t].P_grid_household = m.load_demand[t]
    /\ x[t].P_solar_battery = 0
    /\ x[t].P_grid_battery = 0
    /\ x[t].P_battery_household = 0

\* The feasible set is examined in the state create_milp_model leaves; the
\* states after solve_milp hold the same model and the assignment returned.
C12_ZeroSolarZeroCapacityImportsLoad ==
  ZeroSolarZeroCapacity(model) =>
    /\ pc = "solve" =>
         LET F == FeasibleSet(model) IN
         /\ F # {}
         /\ \A x \in F : ImportsLoad(model, x)
         /\ BestObjective(model, F) = GridOnlyCost(model, model.T)
    /\ Solved => ImportsLoad(model, X)
    /\ model.status = "OPTIMAL" => objVal(model, X) = GridOnlyCost(model, model.T)
    /\ model.status \notin {"INFEASIBLE", "INF_OR_UNBD"}

C12_Witness ==
  /\ ZeroSolarZeroCapacity(model)
  /\ model.T >= 2
  /\ \A t \in Range0(model.T) : model.load_demand[t] > 0
  /\ model.battery.max_charge_rate > 0
  /\ model.status = "OPTIMAL"
  /\ objVal(model, X) = GridOnlyCost(model, model.T)

\* C13: one step with load_demand 1000, solar_production 1500 and max_soc =
\* min_soc = initial_soc = 0: the model is feasible, and every feasible
\* assignment has P_solar_household = 1000, P_solar_grid = 500,
\* P_grid_household = 0, the three battery flows 0 and GF = 0.
SurplusScenario(m) ==
  /\ m.built
  /\ m.T = 1
  /\ m.load_demand[0] = 1000
  /\ m.solar_production[0] = 1500
  /\ m.battery.max_soc = 0
  /\ m.battery.min_soc = 0
  /\ m.battery.initial_soc = 0

SurplusExported(v) ==
  /\ v.P_solar_household = 1000
  /\ v.P_solar_grid = 500
  /\ v.P_grid_household = 0
  /\ v.P_solar_battery = 0
  /\ v.P_grid_battery = 0
  /\ v.P_battery_household = 0
  /\ v.GF = 0

C13_SurplusSolarIsExported ==
  SurplusScenario(model) =>
    LET F == FeasibleSet(model) IN
    /\ F # {}
    /\ \A x \in F : SurplusExported(x[0])
    /\ Solved => SurplusExported(X[0])
    /\ model.status \notin {"INFEASIBLE", "INF_OR_UNBD"}

C13_Witness ==
  /\ SurplusScenario(model)
  /\ model.battery.max_charge_rate > 0
  /\ model.battery.max_discharge_rate > 0
  /\ model.battery.capacity_kwh > 0
  /\ model.status = "OPTIMAL"
  /\ SurplusExported(X[0])

\* C14: when len(time), len(solar_production), len(load_demand) and the
\* number of buy rates are not all equal, create_milp_model raises, with no
\* variable and no constraint added to a model, and returns no model.
Lengths ==
  {len(data.time), len(data.solar_production), len(data.load_demand),
   len(buy_rates)}

InconsistentLengths == Cardinality(Lengths) > 1

C14_InconsistentLengthsRaiseBeforeBuilding ==
  (InconsistentLengths /\ pc # "create") =>
    /\ pc = "crashed"
    /\ ~model.built
    /\ model.NumVars = 0
    /\ model.NumConstrs = 0

\* C15: after a successful solve, for every battery configuration, capacity
\* 0 included, extract_results completes without raising and returns a result
\* with T entries in every series, SoC[t] = SE[t] / capacity * 100 and
\* total_cost equal to the objective value.
ExtractHasRun == Returned /\ ret /\ pc \notin {"returned", "extract"}

C15_ExtractResultsCompletes ==
  ExtractHasRun =>
    /\ raised = "none"
    /\ \E r \in results :
         /\ \A k \in ResultSeries : DOMAIN r[k] = Range0(len(data.time))
         /\ \A t \in Range0(len(data.time)) :
              r.SoC[t] = SoC(X[t].SE, battery_params)
         /\ r.total_cost = objVal(model, X)

\* C16: get_time_of_use_rates leaves data and cost_params unchanged;
\* create_milp_model leaves data, battery_params, cost_params and buy_rates
\* unchanged and returns a model made from its arguments alone, with nothing
\* of an earlier model in it; solve_milp leaves the series, the parameters
\* and the tariff map unchanged; extract_results leaves data, battery_params
\* and the values of the model's variables unchanged.
StepFrom(at) == pc = at /\ pc' # at

FreshModel(m) ==
  /\ m.TimeLimit = None
  /\ m.MIPGap = None
  /\ m.OutputFlag = 1
  /\ m.status = "LOADED"
  /\ m.SolCount = 0
  /\ m.solar_production = data.solar_production
  /\ m.load_demand = data.load_demand
  /\ m.battery = battery_params
  /\ m.buy_rates = buy_rates
  /\ m.sell_price = cost_params.sell_price

C16_InputsNeverMutated ==
  [][/\ StepFrom("rates") =>
          /\ UNCHANGED <<data, cost_params>>
          /\ buy_rates' = TimeOfUseRates(data, cost_params)
     /\ StepFrom("create") =>
          /\ UNCHANGED <<data, battery_params, cost_params, buy_rates>>
          /\ pc' = "solve" => FreshModel(model')
     /\ StepFrom("solve") =>
          UNCHANGED <<data, battery_params, cost_params, buy_rates>>
     /\ StepFrom("extract") =>
          /\ UNCHANGED <<data, battery_params, X, model>>
          /\ \A r \in results' :
               /\ r.time = data.time
               /\ r.solar_production = data.solar_production
               /\ r.load_demand = data.load_demand]_vars

\* a second model has been created after a first run set TimeLimit and MIPGap
\* on its model, solved it and saved its results
C16_Witness ==
  /\ pc = "solve"
  /\ saved
  /\ printed
  /\ results = {}
  /\ FreshModel(model)
  /\ len(data.time) >= 2

\* C17: every assignment that satisfies the constraints 1-8 and at no step
\* both imports and exports also satisfies grid_flow_from and grid_flow_to
\* at every step for some GF[t] in {0, 1}: the two coefficients cut off no
\* such schedule.
WithGF(v, gf) == v @@ [GF |-> gf]

C17_BigMCutsOffNoSchedule ==
  (pc = "solve" /\ model.built) =>
    \A x \in RelaxedSet(model) : \A t \in Range0(model.T) :
      ~(Import(x[t]) > 0 /\ Export(x[t]) > 0) =>
        \E gf \in {0, 1} :
          /\ grid_flow_from(model, t, WithGF(x[t], gf))
          /\ grid_flow_to(model, t, WithGF(x[t], gf))

\* a schedule within the constraints 1-8 that imports household load and
\* charge together, up to the coefficient, and one that exports up to the other
C17_Witness ==
  /\ pc = "solve"
  /\ model.built
  /\ \E x \in RelaxedSet(model) :
       /\ \E t \in Range0(model.T) :
            /\ x[t].P_grid_household > 0
            /\ x[t].P_grid_battery > 0
            /\ Import(x[t]) = model.M_from
       /\ \E t \in Range0(model.T) :
            Export(x[t]) > 0 /\ Export(x[t]) = model.M_to /\ Import(x[t]) = 0

\* C18: the stored energy is the initial energy (step 0) or the previous
\* step's (t > 0), plus the charge times charge_efficiency, minus the
\* discharge divided by discharge_efficiency; each step credits at most the
\* energy charged and debits at least the energy delivered; and over every
\* prefix the energy delivered to the household is at most the initial energy
\* plus the energy charged minus the energy still stored.
\* Energies in the scale of SE: kWh * ConvDen * 100 * discharge_efficiency%.
EnergyCharged(v) == Charging(v) * 100 * battery_params.discharge_efficiency
EnergyDelivered(v) == Discharging(v) * 100 * battery_params.discharge_efficiency
EnergyCredited(v) ==
  Charging(v) * battery_params.charge_efficiency
    * battery_params.discharge_efficiency
EnergyDebited(v) == Discharging(v) * 100 * 100
EnergyAtStart ==
  battery_params.initial_soc * battery_params.capacity_kwh
    * battery_params.discharge_efficiency

RECURSIVE ChargedUpTo(_, _)
ChargedUpTo(x, t) ==
  EnergyCharged(x[t]) + (IF t = 0 THEN 0 ELSE ChargedUpTo(x, t - 1))

RECURSIVE DeliveredUpTo(_, _)
DeliveredUpTo(x, t) ==
  EnergyDelivered(x[t]) + (IF t = 0 THEN 0 ELSE DeliveredUpTo(x, t - 1))

C18_LossesNeverCreateEnergy ==
  \A t \in DOMAIN X :
    /\ X[t].SE = (IF t = 0 THEN EnergyAtStart ELSE X[t - 1].SE)
                   + EnergyCredited(X[t]) - EnergyDebited(X[t])
    /\ EnergyCredited(X[t]) <= EnergyCharged(X[t])
    /\ EnergyDebited(X[t]) >= EnergyDelivered(X[t])
    /\ DeliveredUpTo(X, t) <= EnergyAtStart + ChargedUpTo(X, t) - X[t].SE

C18_Witness ==
  /\ Solved
  /\ battery_params.charge_efficiency < 100
  /\ battery_params.discharge_efficiency < 100
  /\ \E t \in DOMAIN X : Discharging(X[t]) > 0
  /\ \E t \in DOMAIN X : Charging(X[t]) > 0 /\ t > 0
  /\ DeliveredUpTo(X, len(X) - 1)
       < EnergyAtStart + ChargedUpTo(X, len(X) - 1) - X[len(X) - 1].SE

\* C19: when initial_soc lies in [min_soc, max_soc], the schedule that leaves
\* the battery idle (solar to the household up to the load, the surplus
\* exported, the rest of the load imported, SE[t] = initial_soc * capacity,
\* GF[t] = 1 exactly when the load exceeds the solar production) satisfies
\* every constraint at every step, and no run ends INFEASIBLE.
IdleStep(m, t) ==
  LET s == m.solar_production[t]
      l == m.load_demand[t]
      h == IF s < l THEN s ELSE l
  IN [P_solar_household |-> h, P_solar_battery |-> 0, P_solar_grid |-> s - h,
      P_battery_household |-> 0, P_grid_battery |-> 0,
      P_grid_household |-> l - h,
      SE |-> m.battery.initial_soc * m.battery.capacity_kwh
               * m.battery.discharge_efficiency,
      BC |-> 0, BD |-> 0, GF |-> IF l > s THEN 1 ELSE 0]

IdleSchedule(m) == [t \in Range0(m.T) |-> IdleStep(m, t)]

InitialSocInRange(m) ==
  /\ m.built
  /\ m.battery.min_soc <= m.battery.initial_soc
  /\ m.battery.initial_soc <= m.battery.max_soc

C19_IdleScheduleFeasible ==
  InitialSocInRange(model) =>
    /\ \A t \in Range0(model.T) :
         StepFeasible(model, t, IdleStep(model, t),
                      IF t = 0 THEN 0 ELSE IdleStep(model, t - 1).SE)
    /\ model.status \notin {"INFEASIBLE", "INF_OR_UNBD"}

C19_Witness ==
  /\ InitialSocInRange(model)
  /\ model.battery.initial_soc = model.battery.min_soc
  /\ model.battery.capacity_kwh > 0
  /\ model.battery.max_charge_rate = 0
  /\ Solved
  /\ X = IdleSchedule(model)
  /\ \E t \in DOMAIN X : model.load_demand[t] > model.solar_production[t]
  /\ \E t \in DOMAIN X : model.load_demand[t] < model.solar_production[t]

====
